---- MODULE Spec2Model ----
(***************************************************************************)
(* Model of the AI inline-completion coordination subsystem:               *)
(*   - AICompletionManager (src/src/aiCompletionProvider.js), running on   *)
(*     the interaction thread, and                                         *)
(*   - the inference worker (aiWorker.js, src/unnamed/part_002).           *)
(* The two sides share no memory; they exchange messages over two FIFO     *)
(* channels (postMessage).  Every JavaScript callback runs to completion,  *)
(* so each handler is one atomic action; an `await` on the engine          *)
(* (pipeline(...), generator(...)) splits a worker coroutine in two        *)
(* actions, and other worker messages may be handled in between.           *)
(***************************************************************************)
EXTENDS Integers, Sequences, FiniteSets, TLC

\* ---------------------------------------------------------------- bounds
MaxRequests == 3        \* calls of generateCompletionInWorker in a run
MaxPreloads == 2        \* calls of preloadModel in a run
MaxProgressEvents == 2  \* progress_callback invocations in a run
MaxSystemProgress == 1  \* the same, in runs that also request completions
MaxSystemRequests == 1  \* the same calls, in runs that also preload
MaxFairRequests == 2    \* the same calls, in runs checked for liveness
MaxUnexpected == 1      \* messages of unknown type waiting in a channel
MaxFaultPreloads == 1   \* calls of preloadModel in runs with faults
MaxSubscribes == 2      \* calls of setProgressCallback in a run
MaxTriggers == 2        \* calls of provideInlineCompletions in a run
MaxRun == 6             \* length of the run of equal characters in a text
MaxFilterCalls == 1     \* calls of filterContinuation on the same arguments
MaxLines == 57          \* lines of the document
MaxNewlines == 4        \* length of a run of newlines in the engine's output
MaxRegisterCalls == 3   \* calls of registerAICompletionProvider in a run

Ids == 1..MaxRequests           \* completion ids, in order of creation
Preloads == 1..MaxPreloads      \* preloadModel calls, in order of the calls
Attempts == 1..(MaxRequests + MaxPreloads)  \* load attempts of the worker
ProgressValues == {30, 70}      \* values Math.round(data.progress) may take

NoId == 0                       \* null / no request
NoCallback == 0                 \* null; callbacks are named 1, 2, ...
Triggers == 1..MaxTriggers      \* provideInlineCompletions calls, in order
NoDecoration == 0               \* null; a collection is named by its trigger
\* a call of provideInlineCompletions that has not been made
NoTrigger == [pc |-> "none", decoration |-> NoDecoration,
              preload |-> 0, prompt |-> <<>>, lookaheadText |-> <<>>,
              request |-> NoId, continuation |-> <<>>, items |-> <<>>,
              threw |-> FALSE]
ErrModelNotLoaded == 0 - 1      \* error: 'Model not loaded'
ErrEngine == 0 - 2              \* error: err.message of the engine

\* ------------------------------------------------------------- variables
VARIABLES
  \* --- AICompletionManager fields (constructor, lines 5-17)
  worker,                  \* this.worker # null
  isLoading,
  isLoaded,
  loadingProgress,
  isGeneratingCompletion,
  pendingCompletions,      \* keys of the Map; the entry of id holds the
                           \* resolve/reject of future[id] and controller id
  currentCompletionAbort,  \* NoId, or the request whose controller it is
  progressCallback,        \* NoCallback, or the callback in the slot
  rafQueue,                \* callbacks passed to requestAnimationFrame
  \* --- objects the Manager created
  aborted,                 \* controllers whose signal.aborted is true
  timer,                   \* the setTimeout of each request
  future,                  \* state of the promise of each request
  result,                  \* the continuation a promise was resolved with
  settleCalls,             \* calls of resolve/reject made on each promise
  nextId,                  \* next fresh completionId
  preloadFuture,           \* state of the promise of each preloadModel call
  nextPreload,
  \* --- channels
  toWorker,                \* worker.postMessage, FIFO
  toManager,               \* self.postMessage, FIFO
  \* --- worker globals (part_002 lines 5-8)
  generator,               \* generator # null
  wIsLoading,
  wIsLoaded,
  wLoadingProgress,
  \* --- worker coroutines suspended at an await
  loads,                   \* load attempts awaiting pipeline(...)
  loadOwner,               \* the GENERATE awaiting handlePreloadModel, or NoId
  generating,              \* requests awaiting generator(prompt, genParams)
  \* --- history
  pendingAtPost,           \* futures PENDING when GENERATE of id was posted
  superseded,              \* the requests pending when id was issued
  preloadCase,             \* Manager state seen by each preloadModel call
  preloadAttempt,          \* the load attempt a PRELOAD_MODEL message began
  attemptOutcome,          \* how each load attempt ended
  nAttempts,
  terminals,               \* terminal messages the worker posted per id
  received,                \* GENERATE messages the worker has received
  nProgress,
  awaited,                 \* the load a GENERATE found or began on receipt
  workerPath,              \* the branch of lines 104-115 each GENERATE took
  invokedSince,            \* invocations since the last setProgressCallback
  ignored,                 \* the sides that handled a message of unknown type
  \* --- the inline-completion provider (lines 260-340) and its editor
  trig,                    \* the calls of provideInlineCompletions
  loadingDecoration,       \* NoDecoration, or the collection in the field
  loadingDecorationCleared,
  displayed,               \* decoration collections shown in the editor
  \* --- calls of filterContinuation
  continuation,            \* argument: a string, as a sequence of characters
  lookaheadText,           \* argument
  filtered,                \* the values returned so far, in order
  \* --- the windows of provideInlineCompletions (lines 293-315)
  lineCount,               \* model.getLineCount()
  lineNumber,              \* position.lineNumber
  windows,                 \* the line ranges computed so far
  \* --- the text handling of handleGenerateCompletion (part_002 147-195)
  genPrompt,               \* payload.prompt
  fullText,                \* output[0].generated_text
  genLookahead,            \* payload.lookaheadText
  posted,                  \* what the handler computed so far
  \* --- registerAICompletionProvider (lines 247-257)
  providerRegistered,      \* this.providerRegistered
  providers,               \* providers registered with the editor so far
  registerCalls            \* history: calls of registerAICompletionProvider

mgrVars == <<worker, isLoading, isLoaded, loadingProgress,
             isGeneratingCompletion, pendingCompletions,
             currentCompletionAbort, aborted, timer, future, result,
             settleCalls, nextId, preloadFuture, nextPreload,
             progressCallback, rafQueue>>
wrkVars == <<generator, wIsLoading, wIsLoaded, wLoadingProgress, loads,
             loadOwner, generating>>
histVars == <<pendingAtPost, superseded, preloadCase, preloadAttempt,
              attemptOutcome, nAttempts, terminals, received, nProgress,
              awaited, workerPath, invokedSince>>
decVars == <<loadingDecoration, loadingDecorationCleared, displayed>>
adpVars == <<trig, decVars>>
\* what generateCompletionInWorker writes, the worker and its channel aside
genVars == <<nextId, currentCompletionAbort, pendingCompletions, future,
             result, settleCalls, timer, aborted, pendingAtPost, superseded>>
fltVars == <<continuation, lookaheadText, filtered>>
winVars == <<lineCount, lineNumber, windows>>
extVars == <<genPrompt, fullText, genLookahead, posted>>
pureVars == <<winVars, extVars>>
regVars == <<providerRegistered, providers, registerCalls>>
vars == <<mgrVars, toWorker, toManager, wrkVars, histVars, ignored, adpVars,
          fltVars, pureVars, regVars>>

\* --------------------------------------------------------------- messages
\* The cases of the two switch statements.  STATE_UPDATE and GET_STATE are
\* cases too; the Manager never posts GET_STATE, so neither is ever sent.
ManagerCases == {"LOADING_PROGRESS", "MODEL_LOADED", "MODEL_LOAD_ERROR",
                 "GENERATION_START", "GENERATION_COMPLETE",
                 "COMPLETION_ERROR", "STATE_UPDATE"}
WorkerCases == {"PRELOAD_MODEL", "GENERATE_COMPLETION", "GET_STATE"}

Msg(t, i, v) == [type |-> t, id |-> i, val |-> v]

\* ------------------------------------------------------------------- Init
InitSystem ==
  /\ worker = FALSE
  /\ providerRegistered = FALSE
  /\ providers = 0
  /\ registerCalls = 0
  /\ isLoading = FALSE
  /\ isLoaded = FALSE
  /\ loadingProgress = 0
  /\ isGeneratingCompletion = FALSE
  /\ pendingCompletions = {}
  /\ currentCompletionAbort = NoId
  /\ aborted = {}
  /\ timer = [i \in Ids |-> "none"]
  /\ future = [i \in Ids |-> "none"]
  /\ result = [i \in Ids |-> NoId]
  /\ settleCalls = [i \in Ids |-> 0]
  /\ nextId = 1
  /\ preloadFuture = [p \in Preloads |-> "none"]
  /\ nextPreload = 1
  /\ toWorker = <<>>
  /\ toManager = <<>>
  /\ generator = FALSE
  /\ wIsLoading = FALSE
  /\ wIsLoaded = FALSE
  /\ wLoadingProgress = 0
  /\ loads = {}
  /\ loadOwner = [a \in Attempts |-> NoId]
  /\ generating = {}
  /\ pendingAtPost = [i \in Ids |-> {}]
  /\ superseded = [i \in Ids |-> {}]
  /\ preloadCase = [p \in Preloads |-> "none"]
  /\ preloadAttempt = [p \in Preloads |-> 0]
  /\ attemptOutcome = [a \in Attempts |-> "none"]
  /\ nAttempts = 0
  /\ terminals = [i \in Ids |-> 0]
  /\ received = {}
  /\ nProgress = 0
  /\ awaited = [i \in Ids |-> 0]
  /\ workerPath = [i \in Ids |-> "none"]
  /\ progressCallback = NoCallback
  /\ rafQueue = <<>>
  /\ invokedSince = {}
  /\ ignored = {}
  /\ trig = [t \in Triggers |-> NoTrigger]
  /\ loadingDecoration = NoDecoration
  /\ loadingDecorationCleared = FALSE
  /\ displayed = {}

\* No call of filterContinuation is under study: its arguments are empty.
NoFilterCall ==
  /\ continuation = <<>>
  /\ lookaheadText = <<>>
  /\ filtered = <<>>

\* No window is under study: a document of one line.
NoWindowCall ==
  /\ lineCount = 1
  /\ lineNumber = 1
  /\ windows = <<>>

\* No engine output is under study: the texts are empty.
NoExtraction ==
  /\ genPrompt = <<>>
  /\ fullText = <<>>
  /\ genLookahead = <<>>
  /\ posted = <<>>

Init ==
  /\ InitSystem
  /\ NoFilterCall
  /\ NoWindowCall
  /\ NoExtraction

\* ------------------------------------------------ the request table
\* The objects generateCompletionInWorker and its callbacks work on, as one
\* value, so that the statements of a handler compose in program order.
Table == [pending |-> pendingCompletions, future |-> future,
          result |-> result, settleCalls |-> settleCalls,
          timer |-> timer, aborted |-> aborted]

\* line 209/219: every request creates its own AbortController and stores it
\* in its own Map entry; a controller is named by the request that made it.
ControllerOf(id) == id

\* resolve(v) / reject(new Error(kind)) of the promise of request id.  A
\* promise keeps its first settlement; later calls are counted, not applied.
Settle(T, id, kind, v) ==
  [T EXCEPT !.settleCalls[id] = @ + 1,
            !.future[id] = IF @ = "PENDING" THEN kind ELSE @,
            !.result[id] = IF T.future[id] = "PENDING" THEN v ELSE @]

\* lines 236-243: the 'abort' listener of the request with controller c.
AbortListener(T, c) ==
  LET T1 == [T EXCEPT !.timer[c] = IF @ = "armed" THEN "cleared" ELSE @]
  IN IF c \in T1.pending
       THEN Settle([T1 EXCEPT !.pending = @ \ {c}], c, "Aborted", NoId)
       ELSE T1

\* controller.abort(): raises the signal and runs the listener, once.
Abort(T, c) ==
  IF c \in T.aborted THEN T
  ELSE AbortListener([T EXCEPT !.aborted = @ \cup {c}], c)

\* A cancellation that drops the entry of the previous request and aborts
\* its controller, but never rejects its promise.
CancelPreviousNoReject(T, cur) ==
  IF cur = NoId THEN T
  ELSE Abort([T EXCEPT !.pending = @ \ {cur}], cur)

\* A cancellation block that was left out: used to show what the
\* single-pending properties owe to lines 196-206.
CancelPreviousSkipped(T, cur) == T

\* lines 196-206: reject and drop the entry of the current controller, then
\* abort that controller.
CancelPrevious(T, cur) ==
  IF cur = NoId THEN T
  ELSE LET victims == {i \in T.pending : ControllerOf(i) = cur}
           T1 == IF victims = {} THEN T
                 ELSE LET v == CHOOSE i \in victims : TRUE
                      IN Settle([T EXCEPT !.pending = @ \ {v}],
                                v, "Aborted", NoId)
       IN Abort(T1, cur)

SetTable(T) ==
  /\ pendingCompletions' = T.pending
  /\ future' = T.future
  /\ result' = T.result
  /\ settleCalls' = T.settleCalls
  /\ timer' = T.timer
  /\ aborted' = T.aborted

\* ------------------------------------------------------ Manager operations
\* A guard that never sees the loaded model.
AlreadyLoadedIgnored == FALSE

\* line 134: the guard of preloadModel on a loaded model.
AlreadyLoaded == isLoaded

\* lines 133-155.  The first checkLoaded() runs inside the call, right after
\* isLoading was set, and therefore only schedules the next poll.
preloadModel(p) ==
     /\ nextPreload' = p + 1
     /\ IF AlreadyLoaded
          THEN /\ preloadFuture' = [preloadFuture EXCEPT ![p] = "true"]
               /\ preloadCase' = [preloadCase EXCEPT ![p] = "loaded"]
               /\ UNCHANGED <<worker, isLoading, loadingProgress, toWorker>>
        ELSE IF isLoading
          THEN /\ preloadFuture' = [preloadFuture EXCEPT ![p] = "null"]
               /\ preloadCase' = [preloadCase EXCEPT ![p] = "loading"]
               /\ UNCHANGED <<worker, isLoading, loadingProgress, toWorker>>
        ELSE /\ worker' = TRUE
             /\ isLoading' = TRUE
             /\ loadingProgress' = 0
             /\ toWorker' = Append(toWorker, Msg("PRELOAD_MODEL", p, 0))
             /\ preloadFuture' = [preloadFuture EXCEPT ![p] = "polling"]
             /\ preloadCase' = [preloadCase EXCEPT ![p] = "idle"]

\* preloadModel, called by the application (line 462).
PreloadModel ==
  /\ nextPreload <= MaxPreloads
  /\ preloadModel(nextPreload)
  /\ UNCHANGED <<isLoaded, isGeneratingCompletion, pendingCompletions,
                 currentCompletionAbort, aborted, timer, future, result,
                 settleCalls, nextId, toManager, wrkVars, pendingAtPost,
                 superseded, preloadAttempt, attemptOutcome, nAttempts,
                 terminals, received, nProgress, awaited, workerPath,
                 progressCallback, rafQueue, invokedSince,
                 ignored, adpVars, fltVars, pureVars, regVars>>

\* A guard that never sees the earlier registration.
AlreadyRegisteredIgnored == FALSE

\* line 249: the guard of registerAICompletionProvider.
AlreadyRegistered == providerRegistered

\* lines 247-257 and 20-25: registerAICompletionProvider, called when an
\* editor mounts (line 513).  The application keeps a flag of its own in a
\* ref of the component (lines 397, 512-514), which is new each time the
\* component is mounted, while the Manager lives as long as the page: the
\* Manager's method can be called again.  initWorker creates the worker
\* unless there is one.
RegisterAICompletionProvider ==
  /\ registerCalls < MaxRegisterCalls
  /\ registerCalls' = registerCalls + 1
  /\ IF AlreadyRegistered
       THEN UNCHANGED <<providerRegistered, providers, worker>>
       ELSE /\ providerRegistered' = TRUE
            /\ worker' = TRUE
            /\ providers' = providers + 1
  /\ UNCHANGED <<isLoading, isLoaded, loadingProgress,
                 isGeneratingCompletion, pendingCompletions,
                 currentCompletionAbort, aborted, timer, future, result,
                 settleCalls, nextId, preloadFuture, nextPreload,
                 progressCallback, rafQueue, toWorker, toManager, wrkVars,
                 histVars, ignored, adpVars, fltVars, pureVars>>

\* A request that also tells the worker which request it cancelled.
RequestMessagesWithCancel(id, prev) ==
  IF prev = NoId THEN <<Msg("GENERATE_COMPLETION", id, 0)>>
  ELSE <<Msg("CANCEL", prev, 0), Msg("GENERATE_COMPLETION", id, 0)>>

\* lines 221-224: what generateCompletionInWorker posts to the worker for
\* request id, prev being the controller it has just aborted (or NoId).
RequestMessages(id, prev) == <<Msg("GENERATE_COMPLETION", id, 0)>>

\* lines 190-245: the statements of generateCompletionInWorker, up to the
\* promise it returns.
generateCompletionInWorker(id) ==
     LET T1 == CancelPrevious(Table, currentCompletionAbort)
         \* 212-233: the executor; the new controller is never aborted here
         T2 == [T1 EXCEPT !.future[id] = "PENDING",
                          !.pending = @ \cup {id},
                          !.timer[id] = "armed"]
     IN /\ worker' = TRUE
        /\ nextId' = id + 1
        /\ currentCompletionAbort' = ControllerOf(id)
        /\ SetTable(T2)
        /\ toWorker' = toWorker \o RequestMessages(id, currentCompletionAbort)
        /\ pendingAtPost' = [pendingAtPost EXCEPT ![id] =
                               {j \in Ids : T1.future[j] = "PENDING"}]
        /\ superseded' = [superseded EXCEPT ![id] = pendingCompletions]

\* generateCompletionInWorker, called by a client of the Manager.
GenerateCompletionInWorker ==
  /\ nextId <= MaxRequests
  /\ generateCompletionInWorker(nextId)
  /\ UNCHANGED <<isLoading, isLoaded, loadingProgress,
                 isGeneratingCompletion, preloadFuture, nextPreload,
                 toManager, wrkVars, preloadCase, preloadAttempt,
                 attemptOutcome, nAttempts, terminals, received, nProgress,
                 awaited, workerPath, progressCallback, rafQueue,
                 invokedSince,
                 ignored, adpVars, fltVars, pureVars, regVars>>

\* A timeout that retires the entry and rejects, but raises no abort signal.
TimeoutExpiredNoAbort(T, id) ==
  Settle([T EXCEPT !.pending = @ \ {id}], id, "Timeout", NoId)

\* A timeout that retires the entry and aborts, but never rejects.
TimeoutExpiredNoReject(T, id) ==
  Abort([T EXCEPT !.pending = @ \ {id}], ControllerOf(id))

\* lines 229-231: the body of the timeout callback for a pending request.
TimeoutExpired(T, id) ==
  Settle(Abort([T EXCEPT !.pending = @ \ {id}], ControllerOf(id)),
         id, "Timeout", NoId)

\* lines 227-233: the timeout callback of request id.  COMPLETION_TIMEOUT_MS
\* is a duration; the callback may run at any moment after it was armed.
Timeout(id) ==
  /\ timer[id] = "armed"
  /\ LET T0 == [Table EXCEPT !.timer[id] = "fired"]
     IN IF id \in T0.pending
          THEN SetTable(TimeoutExpired(T0, id))
          ELSE SetTable(T0)
  /\ UNCHANGED <<worker, isLoading, isLoaded, loadingProgress,
                 isGeneratingCompletion, currentCompletionAbort, nextId,
                 preloadFuture, nextPreload, toWorker, toManager, wrkVars,
                 histVars, progressCallback, rafQueue,
                 ignored, adpVars, fltVars, pureVars, regVars>>

\* A handler that settles the request the message names without looking it
\* up in the table.
TerminalUnchecked(T, m, kind) ==
  Settle([T EXCEPT !.pending = @ \ {m.id}], m.id, kind, m.val)

\* A handler that settles whatever request is pending, whatever id the
\* message bears.
TerminalIgnoringId(T, m, kind) ==
  IF T.pending = {} THEN T
  ELSE LET i == CHOOSE j \in T.pending : TRUE
       IN Settle([T EXCEPT !.pending = @ \ {i}], i, kind, m.val)

\* lines 75-80 and 92-97: settle the entry the message names, if any.
Terminal(T, m, kind) ==
  IF m.id \in T.pending
    THEN Settle([T EXCEPT !.pending = @ \ {m.id}], m.id, kind, m.val)
    ELSE T

\* lines 34-38, 45-49, 60-64, 69-73, 86-90: requestAnimationFrame of a
\* closure that calls this.progressCallback, when the slot is not empty.
\* The kind stands for the arguments of the call; cb, the callback in the
\* slot when the frame was requested, is history.
Schedule(kind) ==
  rafQueue' = IF progressCallback # NoCallback
                THEN Append(rafQueue, [kind |-> kind, cb |-> progressCallback])
                ELSE rafQueue

\* lines 118-120: setProgressCallback; the k-th call passes callback k.
SetProgressCallback ==
  /\ progressCallback < MaxSubscribes
  /\ progressCallback' = progressCallback + 1
  /\ invokedSince' = {}
  /\ UNCHANGED <<worker, isLoading, isLoaded, loadingProgress,
                 isGeneratingCompletion, pendingCompletions,
                 currentCompletionAbort, aborted, timer, future, result,
                 settleCalls, nextId, preloadFuture, nextPreload, rafQueue,
                 toWorker, toManager, wrkVars, pendingAtPost, superseded,
                 preloadCase, preloadAttempt, attemptOutcome, nAttempts,
                 terminals, received, nProgress, awaited, workerPath,
                 ignored, adpVars, fltVars, pureVars, regVars>>

\* A closure that kept the callback of the moment it was created.
FrameTargetCaptured(f) == f.cb

\* lines 36, 47, 62, 71, 88: the closure reads this.progressCallback when it
\* runs.
FrameTarget(f) == progressCallback

\* The browser runs the oldest callback passed to requestAnimationFrame.
AnimationFrame ==
  /\ rafQueue # <<>>
  /\ rafQueue' = Tail(rafQueue)
  /\ invokedSince' = invokedSince \cup
                       {[sched |-> Head(rafQueue).cb,
                         to |-> FrameTarget(Head(rafQueue))]}
  /\ UNCHANGED <<worker, isLoading, isLoaded, loadingProgress,
                 isGeneratingCompletion, pendingCompletions,
                 currentCompletionAbort, aborted, timer, future, result,
                 settleCalls, nextId, preloadFuture, nextPreload,
                 progressCallback, toWorker, toManager, wrkVars,
                 pendingAtPost, superseded, preloadCase, preloadAttempt,
                 attemptOutcome, nAttempts, terminals, received, nProgress,
                 awaited, workerPath,
                 ignored, adpVars, fltVars, pureVars, regVars>>

\* lines 27-107: worker.onmessage.  The worker posts STATE_UPDATE only in
\* reply to GET_STATE, which the Manager never posts, so that case has no
\* message to handle.
OnMessage ==
  /\ toManager # <<>>
  /\ LET m == Head(toManager) IN
     /\ toManager' = Tail(toManager)
     /\ CASE m.type = "LOADING_PROGRESS" ->
               /\ loadingProgress' = m.val
               /\ isLoading' = TRUE
               /\ Schedule("progress")
               /\ UNCHANGED <<isLoaded, isGeneratingCompletion,
                              pendingCompletions, future, result,
                              settleCalls, timer, aborted>>
          [] m.type = "MODEL_LOADED" ->
               /\ isLoaded' = TRUE
               /\ isLoading' = FALSE
               /\ loadingProgress' = 100
               /\ Schedule("loaded")
               /\ UNCHANGED <<isGeneratingCompletion, pendingCompletions,
                              future, result, settleCalls, timer, aborted>>
          [] m.type = "MODEL_LOAD_ERROR" ->
               /\ isLoading' = FALSE
               /\ loadingProgress' = 0
               /\ UNCHANGED rafQueue
               /\ UNCHANGED <<isLoaded, isGeneratingCompletion,
                              pendingCompletions, future, result,
                              settleCalls, timer, aborted>>
          [] m.type = "GENERATION_START" ->
               /\ isGeneratingCompletion' = TRUE
               /\ Schedule("generating")
               /\ UNCHANGED <<isLoading, isLoaded, loadingProgress,
                              pendingCompletions, future, result,
                              settleCalls, timer, aborted>>
          [] m.type = "GENERATION_COMPLETE" ->
               /\ isGeneratingCompletion' = FALSE
               /\ Schedule("idle")
               /\ SetTable(Terminal(Table, m, "RESOLVED"))
               /\ UNCHANGED <<isLoading, isLoaded, loadingProgress>>
          [] m.type = "COMPLETION_ERROR" ->
               /\ isGeneratingCompletion' = FALSE
               /\ Schedule("idle")
               /\ SetTable(Terminal(Table, m, "FAILED"))
               /\ UNCHANGED <<isLoading, isLoaded, loadingProgress>>
          [] OTHER ->  \* the switch has no default case
               UNCHANGED <<isLoading, isLoaded, loadingProgress,
                           isGeneratingCompletion, pendingCompletions,
                           future, result, settleCalls, timer, aborted,
                           rafQueue>>
  /\ ignored' = IF Head(toManager).type \in ManagerCases THEN ignored
                ELSE ignored \cup {"manager"}
  /\ UNCHANGED <<worker, currentCompletionAbort, nextId, preloadFuture,
                 nextPreload, toWorker, wrkVars, histVars,
                 progressCallback, adpVars, fltVars, pureVars, regVars>>

\* lines 109-112: worker.onerror.  The error event is raised by the browser
\* for an error nothing in the worker caught (in the engine's own callbacks,
\* or while the worker script loads); it may come at any moment once the
\* worker exists.
OnError ==
  /\ worker
  /\ isLoading' = FALSE
  /\ UNCHANGED <<worker, isLoaded, loadingProgress, isGeneratingCompletion,
                 pendingCompletions, currentCompletionAbort, aborted, timer,
                 future, result, settleCalls, nextId, preloadFuture,
                 nextPreload, toWorker, toManager, wrkVars, histVars,
                 progressCallback, rafQueue,
                 ignored, adpVars, fltVars, pureVars, regVars>>

\* --------------------------------------------------------------- the worker
IsTerminal(m) == m.type \in {"GENERATION_COMPLETE", "COMPLETION_ERROR"}

\* self.postMessage of the messages ms, in order.
Post(ms) ==
  /\ toManager' = toManager \o ms
  /\ terminals' = [i \in Ids |-> terminals[i] +
                     Cardinality({k \in DOMAIN ms :
                                    IsTerminal(ms[k]) /\ ms[k].id = i})]

\* A guard that never sees the load in progress.
LoadInProgressIgnored == FALSE

\* line 47: the guard of handlePreloadModel against a second load.
LoadInProgress == wIsLoading

\* A reply that was left out.
NotLoadedReplyMissing(id) == <<>>

\* lines 104-110: the reply of handleGenerateCompletion without a generator.
NotLoadedReply(id) == <<Msg("COMPLETION_ERROR", id, ErrModelNotLoaded)>>

\* A default case that answers with an error.
UnknownReplyError == <<Msg("COMPLETION_ERROR", NoId, ErrEngine)>>

\* lines 34-35: the default case of self.onmessage only warns on the console.
UnknownReply == <<>>

\* lines 51-62: handlePreloadModel begins a load for owner (a GENERATE that
\* awaits it, or NoId for a PRELOAD_MODEL) and suspends at pipeline(...).
StartLoad(owner) ==
  LET a == nAttempts + 1 IN
  /\ wIsLoading' = TRUE
  /\ wLoadingProgress' = 0
  /\ nAttempts' = a
  /\ loads' = loads \cup {a}
  /\ loadOwner' = [loadOwner EXCEPT ![a] = owner]
  /\ attemptOutcome' = [attemptOutcome EXCEPT ![a] = "running"]

\* lines 104-115 and 147: handleGenerateCompletion once handlePreloadModel
\* has returned; g is the value of generator it then reads.  Gives the
\* messages posted and whether the coroutine goes on to await the engine.
AfterPreload(id, g) ==
  IF ~g THEN [post |-> NotLoadedReply(id), gen |-> {}]
  ELSE [post |-> <<Msg("GENERATION_START", id, 0)>>, gen |-> {id}]

\* History: the branch handleGenerateCompletion took for request id.
RecordPath(id, r) ==
  workerPath' = [workerPath EXCEPT ![id] =
                   IF r.gen = {} THEN "notLoaded" ELSE "started"]

\* lines 11-37: self.onmessage, up to the first await that suspends, for the
\* two kinds of message the Manager posts.  The id of a PRELOAD_MODEL names
\* the preloadModel call that posted it; the worker reads it only to record
\* preloadAttempt.  GENERATION_START has no payload: the id it bears here
\* is history, and the Manager does not read it.
WorkerOnMessage ==
  /\ toWorker # <<>>
  /\ LET m == Head(toWorker) IN
     /\ toWorker' = Tail(toWorker)
     /\ CASE m.type = "PRELOAD_MODEL" ->
               /\ UNCHANGED <<generator, wIsLoaded, generating, received,
                              awaited, workerPath>>
               /\ IF wIsLoaded
                    THEN /\ Post(<<Msg("MODEL_LOADED", 0, 100)>>)
                         /\ UNCHANGED <<wIsLoading, wLoadingProgress, loads,
                                        loadOwner, nAttempts, attemptOutcome,
                                        preloadAttempt>>
                  ELSE IF LoadInProgress
                    THEN /\ Post(<<>>)
                         /\ UNCHANGED <<wIsLoading, wLoadingProgress, loads,
                                        loadOwner, nAttempts, attemptOutcome,
                                        preloadAttempt>>
                  ELSE /\ StartLoad(NoId)
                       /\ Post(<<Msg("LOADING_PROGRESS", 0, 0)>>)
                       /\ preloadAttempt' =
                            [preloadAttempt EXCEPT ![m.id] = nAttempts + 1]
          [] m.type = "GENERATE_COMPLETION" ->
               /\ received' = received \cup {m.id}
               /\ awaited' = [awaited EXCEPT ![m.id] =
                                IF wIsLoaded THEN 0
                                ELSE IF LoadInProgress THEN nAttempts
                                ELSE nAttempts + 1]
               /\ UNCHANGED <<generator, wIsLoaded, preloadAttempt>>
               /\ IF ~wIsLoaded /\ ~LoadInProgress
                    THEN \* 99-101, 51-62: implicit load, awaited
                         /\ StartLoad(m.id)
                         /\ Post(<<Msg("LOADING_PROGRESS", 0, 0)>>)
                         /\ UNCHANGED <<generating, workerPath>>
                    ELSE \* loaded, or handlePreloadModel returned at once
                         LET r == AfterPreload(m.id, generator) IN
                         /\ Post(r.post)
                         /\ RecordPath(m.id, r)
                         /\ generating' = generating \cup r.gen
                         /\ UNCHANGED <<wIsLoading, wLoadingProgress, loads,
                                        loadOwner, nAttempts, attemptOutcome>>
          [] OTHER ->
               /\ Post(UnknownReply)
               /\ UNCHANGED <<generator, wIsLoading, wIsLoaded,
                              wLoadingProgress, loads, loadOwner, generating,
                              preloadAttempt, attemptOutcome, nAttempts,
                              received, awaited, workerPath>>
  /\ ignored' = IF Head(toWorker).type \in WorkerCases THEN ignored
                ELSE ignored \cup {"worker"}
  /\ UNCHANGED <<mgrVars, pendingAtPost, superseded, preloadCase, nProgress,
                 invokedSince, adpVars, fltVars, pureVars, regVars>>

\* lines 66-72: progress_callback, called by the engine during a load.
ProgressCallback(a, v) ==
  /\ a \in loads
  /\ nProgress < MaxProgressEvents
  /\ nProgress' = nProgress + 1
  /\ wLoadingProgress' = v
  /\ Post(<<Msg("LOADING_PROGRESS", 0, v)>>)
  /\ UNCHANGED <<mgrVars, toWorker, generator, wIsLoading, wIsLoaded, loads,
                 loadOwner, generating, pendingAtPost, superseded,
                 preloadCase, preloadAttempt, attemptOutcome, nAttempts,
                 received, awaited, workerPath, invokedSince,
                 ignored, adpVars, fltVars, pureVars, regVars>>

\* lines 62-85: pipeline(...) resolved; then, for a GENERATE that awaited
\* the load, lines 104-147.
LoadResolve(a) ==
  /\ a \in loads
  /\ loads' = loads \ {a}
  /\ generator' = TRUE
  /\ wIsLoaded' = TRUE
  /\ wIsLoading' = FALSE
  /\ wLoadingProgress' = 100
  /\ attemptOutcome' = [attemptOutcome EXCEPT ![a] = "loaded"]
  /\ LET r == IF loadOwner[a] = NoId THEN [post |-> <<>>, gen |-> {}]
              ELSE AfterPreload(loadOwner[a], TRUE)
     IN /\ Post(<<Msg("MODEL_LOADED", 0, 100)>> \o r.post)
        /\ generating' = generating \cup r.gen
        /\ IF loadOwner[a] = NoId THEN UNCHANGED workerPath
           ELSE RecordPath(loadOwner[a], r)
  /\ UNCHANGED <<mgrVars, toWorker, loadOwner, pendingAtPost, superseded,
                 preloadCase, preloadAttempt, nAttempts, received,
                 nProgress, awaited, invokedSince,
                 ignored, adpVars, fltVars, pureVars, regVars>>

\* A catch block that reports the failure and loads again by itself.
LoadRejectRetry(a) ==
  /\ a \in loads
  /\ nAttempts < MaxRequests + MaxPreloads
  /\ loads' = (loads \ {a}) \cup {nAttempts + 1}
  /\ nAttempts' = nAttempts + 1
  /\ loadOwner' = [loadOwner EXCEPT ![nAttempts + 1] = loadOwner[a]]
  /\ wLoadingProgress' = 0
  /\ attemptOutcome' = [attemptOutcome EXCEPT ![a] = "error",
                                              ![nAttempts + 1] = "running"]
  /\ Post(<<Msg("MODEL_LOAD_ERROR", 0, 0)>>)
  /\ UNCHANGED <<mgrVars, toWorker, generator, wIsLoading, wIsLoaded,
                 generating, pendingAtPost, superseded, preloadCase,
                 preloadAttempt, received, nProgress, awaited, workerPath,
                 invokedSince, ignored, adpVars, fltVars, pureVars, regVars>>

\* lines 86-95: pipeline(...) rejected; then, for a GENERATE that awaited
\* the load, lines 104-110.
LoadReject(a) ==
  /\ a \in loads
  /\ loads' = loads \ {a}
  /\ wIsLoading' = FALSE
  /\ wLoadingProgress' = 0
  /\ attemptOutcome' = [attemptOutcome EXCEPT ![a] = "error"]
  /\ LET r == IF loadOwner[a] = NoId THEN [post |-> <<>>, gen |-> {}]
              ELSE AfterPreload(loadOwner[a], generator)
     IN /\ Post(<<Msg("MODEL_LOAD_ERROR", 0, 0)>> \o r.post)
        /\ generating' = generating \cup r.gen
        /\ IF loadOwner[a] = NoId THEN UNCHANGED workerPath
           ELSE RecordPath(loadOwner[a], r)
  /\ UNCHANGED <<mgrVars, toWorker, generator, wIsLoaded, loadOwner,
                 pendingAtPost, superseded, preloadCase, preloadAttempt,
                 nAttempts, received, nProgress, awaited, invokedSince,
                 ignored, adpVars, fltVars, pureVars, regVars>>

\* lines 147-200: generator(...) resolved.  The continuation is named by the
\* request whose prompt it continues (prompt and completionId are parameters
\* of the same call).
GenerateResolve(id) ==
  /\ id \in generating
  /\ generating' = generating \ {id}
  /\ Post(<<Msg("GENERATION_COMPLETE", id, id)>>)
  /\ UNCHANGED <<mgrVars, toWorker, generator, wIsLoading, wIsLoaded,
                 wLoadingProgress, loads, loadOwner, pendingAtPost,
                 superseded, preloadCase, preloadAttempt, attemptOutcome,
                 nAttempts, received, nProgress, awaited, workerPath,
                 invokedSince,
                 ignored, adpVars, fltVars, pureVars, regVars>>

\* lines 201-207: the engine, or the extraction after it, threw.
GenerateReject(id) ==
  /\ id \in generating
  /\ generating' = generating \ {id}
  /\ Post(<<Msg("COMPLETION_ERROR", id, ErrEngine)>>)
  /\ UNCHANGED <<mgrVars, toWorker, generator, wIsLoading, wIsLoaded,
                 wLoadingProgress, loads, loadOwner, pendingAtPost,
                 superseded, preloadCase, preloadAttempt, attemptOutcome,
                 nAttempts, received, nProgress, awaited, workerPath,
                 invokedSince,
                 ignored, adpVars, fltVars, pureVars, regVars>>

\* ------------------------------------------------------ filterContinuation
\* Strings are sequences of one-character strings.
WhiteSpace == {" ", "\n", "\t"}   \* what trimStart strips and \s matches

\* String.prototype.trimStart (lines 162 and 179).
RECURSIVE TrimStart(_)
TrimStart(s) ==
  IF s # <<>> /\ Head(s) \in WhiteSpace THEN TrimStart(Tail(s)) ELSE s

\* lines 165-174: the loop that counts the common leading characters.
RECURSIVE Overlap(_, _)
Overlap(cont, look) ==
  IF cont # <<>> /\ look # <<>> /\ Head(cont) = Head(look)
    THEN 1 + Overlap(Tail(cont), Tail(look))
    ELSE 0

OverlapThreshold == 5

\* A character class that lost the closing parenthesis.
ClosersWithoutParenthesis == {";", "}", "]"}

\* line 183: the character class [;})\]] of the regular expression.
Closers == {";", "}", ")", "]"}

\* line 183: s is a sequence of ([;})\]]|\n\s*), up to its end.  After a
\* newline \s* may take all the white space that follows: what it leaves
\* could only be taken by further \n\s* items.
RECURSIVE Tokens(_)
Tokens(s) ==
  IF s = <<>> THEN TRUE
  ELSE IF Head(s) \in Closers THEN Tokens(Tail(s))
  ELSE IF Head(s) = "\n" THEN Tokens(TrimStart(Tail(s)))
  ELSE FALSE

\* line 183: /^\s*([;})\]]|\n\s*)+$/.test(s)
TrivialCompletion(s) ==
  \E k \in 0..Len(s) :
    /\ \A i \in 1..k : s[i] \in WhiteSpace
    /\ k < Len(s)
    /\ Tokens(SubSeq(s, k + 1, Len(s)))

\* A guard that was left out.
NothingToCompareSkipped(c, l) == FALSE

\* A guard that looks at the continuation only.
NothingToCompareWithoutLookahead(c, l) == c = <<>>

\* line 160: !continuation || !lookaheadText, for strings.
NothingToCompare(c, l) == c = <<>> \/ l = <<>>

\* lines 159-188.
FilterContinuation(c, l) ==
  IF NothingToCompare(c, l) THEN c
  ELSE LET cont == TrimStart(c)
           overlap == Overlap(cont, l)
       IN IF overlap > OverlapThreshold
             \/ (overlap = Len(cont) /\ overlap > 0)
            THEN TrimStart(SubSeq(cont, overlap + 1, Len(cont)))
          ELSE IF TrivialCompletion(cont) THEN <<>>
          ELSE cont

\* The texts the arguments are drawn from: an indentation, a run of equal
\* characters (what two texts may have in common), and an ending.
Run(n) == [i \in 1..n |-> "a"]
Leads == {<<>>, <<" ">>}
Endings == {<<>>, <<"b">>, <<" ", "b">>, <<";">>, <<";", " ", "b">>,
            <<")", ";", "\n">>, <<"\n", " ", "}">>, <<";", " ", ")">>}
Texts == {w \o Run(n) \o e : w \in Leads, n \in 0..MaxRun, e \in Endings}

\* A call filterContinuation(continuation, lookaheadText).
FilterCall ==
  /\ Len(filtered) < MaxFilterCalls
  /\ filtered' = Append(filtered,
                        FilterContinuation(continuation, lookaheadText))
  /\ UNCHANGED <<mgrVars, toWorker, toManager, wrkVars, histVars, ignored,
                 adpVars, continuation, lookaheadText, pureVars, regVars>>

\* ------------------------------------------- provideInlineCompletions
\* The provider registered at lines 257-345.  A call is named by its rank t;
\* the decoration collection a call creates is named by the call.  A call
\* runs to its first unsettled await in one step; what follows the await of
\* preloadModel() runs in the step that settles that promise, because a
\* continuation is a microtask of the task that resolved the promise.

\* String.prototype.trimEnd.
RECURSIVE TrimEnd(_)
TrimEnd(s) ==
  IF s # <<>> /\ s[Len(s)] \in WhiteSpace
    THEN TrimEnd(SubSeq(s, 1, Len(s) - 1)) ELSE s

\* String.prototype.trim.
Trim(s) == TrimEnd(TrimStart(s))

MIN_PROMPT_LENGTH == 20

\* The text before the cursor: code as long as the minimum, and code one
\* character short of it between white space.
Code(n) == [i \in 1..n |-> "a"]
Prompts == {Code(MIN_PROMPT_LENGTH),
            <<" ">> \o Code(MIN_PROMPT_LENGTH - 1) \o <<"\n">>}

\* The text after the cursor.
Lookaheads == {<<>>, <<"b">>}

\* The texts the engine may return as payload.continuation.
Continuations == {<<>>, <<"b">>, <<";">>}

\* A length test on the prompt as the editor returned it.
PromptLengthUntrimmed(prompt) == Len(prompt)

\* line 302: prompt.trim().length.
PromptLength(prompt) == Len(Trim(prompt))

\* A test that lets every call through.
StillNotLoadedIgnored == FALSE

\* line 291: if (!this.isLoaded) return { items: [] }.
StillNotLoaded == ~isLoaded

\* return { items: [] } of call t.
ReturnEmpty(t, r) ==
  trig' = [trig EXCEPT ![t] = [r EXCEPT !.pc = "done", !.items = <<>>]]

\* lines 293-318: the prompt, its length test, the lookahead and the call
\* of generateCompletionInWorker, where call t then waits.
Prompted(t, r, prompt, look) ==
  IF PromptLength(prompt) < MIN_PROMPT_LENGTH
    THEN /\ ReturnEmpty(t, [r EXCEPT !.prompt = prompt])
         /\ UNCHANGED <<worker, toWorker, genVars>>
  ELSE /\ nextId <= MaxRequests
       /\ generateCompletionInWorker(nextId)
       /\ trig' = [trig EXCEPT ![t] =
                     [r EXCEPT !.pc = "awaitCompletion", !.prompt = prompt,
                               !.lookaheadText = look, !.request = nextId]]

\* lines 291-318: what call t does once the wait for the preload is over.
AfterWait(t, r, prompt, look) ==
  IF StillNotLoaded
    THEN ReturnEmpty(t, r) /\ UNCHANGED <<worker, toWorker, genVars>>
  ELSE Prompted(t, r, prompt, look)

\* The decoration field, its flag and the editor's decorations, as one value.
Decorations == [field |-> loadingDecoration,
                cleared |-> loadingDecorationCleared,
                shown |-> displayed]

SetDecorations(D) ==
  /\ loadingDecoration' = D.field
  /\ loadingDecorationCleared' = D.cleared
  /\ displayed' = D.shown

\* lines 267-277: createDecorationsCollection, stored in the field.
CreateDecoration(D, t) == [D EXCEPT !.field = t, !.shown = @ \cup {t}]

\* lines 280-286: the callback given to finally.
Finally(D) ==
  [field |-> NoDecoration, cleared |-> TRUE,
   shown |-> IF D.field # NoDecoration THEN D.shown \ {D.field} ELSE D.shown]

\* lines 262-318: call t of provideInlineCompletions, on a model with or
\* without an editor, up to its first unsettled await.  In the two branches
\* that call preloadModel the model is not loaded and stays so until the
\* call returns or suspends: a promise preloadModel settled at once gives
\* the test of line 291 the value it had at line 266.
ProvideInlineCompletions(t, ed, prompt, look) ==
  /\ trig[t].pc = "none"
  /\ \A u \in Triggers : u < t => trig[u].pc # "none"
  /\ LET r == NoTrigger
         p == nextPreload
     IN IF ~isLoaded /\ ~loadingDecorationCleared /\ ed
          THEN \* 266-286: decoration, preloadModel().finally(...), no await
               /\ p <= MaxPreloads
               /\ preloadModel(p)
               /\ LET D == CreateDecoration(Decorations, t)
                  IN IF preloadFuture'[p] = "polling"
                       THEN SetDecorations(D)
                       ELSE SetDecorations(Finally(D))
               /\ ReturnEmpty(t, [r EXCEPT !.decoration = t, !.preload = p])
               /\ UNCHANGED genVars
        ELSE IF ~isLoaded
          THEN \* 287-288: await this.preloadModel()
               /\ p <= MaxPreloads
               /\ preloadModel(p)
               /\ IF preloadFuture'[p] = "polling"
                    THEN trig' = [trig EXCEPT ![t] =
                                    [r EXCEPT !.pc = "awaitPreload",
                                              !.preload = p]]
                    ELSE ReturnEmpty(t, [r EXCEPT !.preload = p])
               /\ UNCHANGED <<decVars, genVars>>
        ELSE /\ AfterWait(t, r, prompt, look)
             /\ UNCHANGED <<isLoading, loadingProgress, preloadFuture,
                            nextPreload, preloadCase, decVars>>
  /\ UNCHANGED <<isLoaded, isGeneratingCompletion, progressCallback,
                 rafQueue, toManager, wrkVars, preloadAttempt,
                 attemptOutcome, nAttempts, terminals, received, nProgress,
                 awaited, workerPath, invokedSince, ignored, fltVars, pureVars, regVars>>

\* A poll that resolves on success alone.
PolledWithoutFailure == IF isLoaded THEN "true" ELSE "polling"

\* lines 143-149: what one run of checkLoaded does with the promise.
Polled ==
  IF isLoaded THEN "true"
  ELSE IF ~isLoading /\ ~isLoaded THEN "false"
  ELSE "polling"

\* lines 142-150: one run of the poll of preloadModel call p.  When the poll
\* resolves the promise, the callback a provider call attached with finally
\* and the provider call awaiting the promise run in the same step.
CheckLoaded(p) ==
  /\ preloadFuture[p] = "polling"
  /\ preloadFuture' = [preloadFuture EXCEPT ![p] = Polled]
  /\ LET settles == Polled # "polling"
         attached == {t \in Triggers : /\ trig[t].preload = p
                                       /\ trig[t].decoration # NoDecoration}
         awaiting == {t \in Triggers : /\ trig[t].preload = p
                                       /\ trig[t].pc = "awaitPreload"}
     IN /\ IF settles /\ attached # {}
             THEN SetDecorations(Finally(Decorations))
             ELSE UNCHANGED decVars
        /\ IF settles /\ awaiting # {}
             THEN \E prompt \in Prompts, look \in Lookaheads :
                    LET t == CHOOSE u \in awaiting : TRUE
                    IN AfterWait(t, trig[t], prompt, look)
             ELSE UNCHANGED <<trig, worker, toWorker, genVars>>
  /\ UNCHANGED <<isLoading, isLoaded, loadingProgress,
                 isGeneratingCompletion, nextPreload, toManager, wrkVars,
                 preloadCase, preloadAttempt, attemptOutcome, nAttempts,
                 terminals, received, nProgress, awaited, workerPath,
                 invokedSince, progressCallback, rafQueue, ignored, fltVars, pureVars, regVars>>

\* An error handler that lets the error reach the editor.
CaughtRethrown(r) == [r EXCEPT !.pc = "done", !.items = <<>>, !.threw = TRUE]

\* lines 333-338: the catch block.
Caught(r) == [r EXCEPT !.pc = "done", !.items = <<>>]

\* The position argument of call t: each call receives its own cursor
\* position, named by the call.
Position(t) == [lineNumber |-> t, column |-> t]

\* line 330: new monaco.Range(line, column, line, column) at the position
\* call t received.
Range(t) == [start |-> Position(t), end |-> Position(t)]

\* A provider that inserts what the worker returned, as it is.
SuggestedUnfiltered(t, r, c) ==
  [r EXCEPT !.pc = "done", !.continuation = c,
            !.items = IF c = <<>> THEN <<>>
                      ELSE <<[insertText |-> c, range |-> Range(t)]>>]

\* lines 320-331: the suggestions call t makes of continuation c.
Suggested(t, r, c) ==
  LET filteredContinuation == FilterContinuation(c, r.lookaheadText)
  IN [r EXCEPT !.pc = "done", !.continuation = c,
               !.items = IF c = <<>> \/ filteredContinuation = <<>>
                           THEN <<>>
                           ELSE <<[insertText |-> filteredContinuation,
                                   range |-> Range(t)]>>]

\* lines 318-339: call t resumes after the promise of its request settled.
\* The promise keeps its settlement, so the step reads what the microtask
\* that follows the settlement reads.  The text of the continuation the
\* worker returned is drawn when it is read.
CompletionSettled(t) ==
  /\ trig[t].pc = "awaitCompletion"
  /\ future[trig[t].request] \in {"RESOLVED", "FAILED", "Aborted", "Timeout"}
  /\ IF future[trig[t].request] = "RESOLVED"
       THEN \E c \in Continuations :
              trig' = [trig EXCEPT ![t] = Suggested(t, trig[t], c)]
       ELSE trig' = [trig EXCEPT ![t] = Caught(trig[t])]
  /\ UNCHANGED <<mgrVars, toWorker, toManager, wrkVars, histVars, ignored,
                 decVars, fltVars, pureVars, regVars>>

\* ------------------------------------------------ the context windows
MAX_CONTEXT_LINES == 50
MAX_LOOKAHEAD_LINES == 5

Max(a, b) == IF a >= b THEN a ELSE b
Min(a, b) == IF a <= b THEN a ELSE b

\* A start line that is not clamped to the first line.
StartLineUnclamped(line) == line - MAX_CONTEXT_LINES

\* line 294: Math.max(1, position.lineNumber - MAX_CONTEXT_LINES).
StartLine(line) == Max(1, line - MAX_CONTEXT_LINES)

\* lines 305-309: Math.min(totalLines, position.lineNumber +
\* MAX_LOOKAHEAD_LINES).
LookaheadEndLine(totalLines, line) ==
  Min(totalLines, line + MAX_LOOKAHEAD_LINES)

\* lines 295-300 and 310-315: the two ranges read from the model.  Both
\* have the cursor at one end; columns play no part in the line counts.
Windows(totalLines, line) ==
  [prompt |-> [startLineNumber |-> StartLine(line),
               endLineNumber |-> line],
   lookahead |-> [startLineNumber |-> line,
                  endLineNumber |-> LookaheadEndLine(totalLines, line)]]

\* lines 293-315, on the document and the cursor of this run.
WindowCall ==
  /\ windows = <<>>
  /\ windows' = <<Windows(lineCount, lineNumber)>>
  /\ UNCHANGED <<mgrVars, toWorker, toManager, wrkVars, histVars, ignored,
                 adpVars, fltVars, lineCount, lineNumber, extVars, regVars>>

\* ------------------------------- the texts of handleGenerateCompletion
\* part_002 lines 147-195: from the text the engine returned to the
\* continuation posted in GENERATION_COMPLETE.

StartsWith(s, prefix) ==
  Len(prefix) <= Len(s) /\ SubSeq(s, 1, Len(prefix)) = prefix

\* The words of a text without white space at its ends: split(/\s+/).  A
\* text with no character at all has one word, the empty one.
RECURSIVE SplitWords(_, _)
SplitWords(s, word) ==
  IF s = <<>> THEN <<word>>
  ELSE IF Head(s) \in WhiteSpace
    THEN <<word>> \o SplitWords(TrimStart(s), <<>>)
  ELSE SplitWords(Tail(s), Append(word, Head(s)))

\* s.trim().split(/\s+/)
Words(s) == SplitWords(Trim(s), <<>>)

\* words.join(' ')
RECURSIVE Join(_)
Join(words) ==
  IF words = <<>> THEN <<>>
  ELSE IF Len(words) = 1 THEN Head(words)
  ELSE Head(words) \o <<" ">> \o Join(Tail(words))

\* lines 163-169: the number of leading words two lists have in common.
RECURSIVE NewContentStart(_, _)
NewContentStart(pw, fw) ==
  IF pw # <<>> /\ fw # <<>> /\ Head(pw) = Head(fw)
    THEN 1 + NewContentStart(Tail(pw), Tail(fw)) ELSE 0

\* lines 158-174: the words of the output from the first one that differs
\* from the word of the prompt at its place.
WordSuffix(prompt, text) ==
  LET fw == Words(text)
      n == NewContentStart(Words(prompt), fw)
  IN IF n < Len(fw) THEN Join(SubSeq(fw, n + 1, Len(fw))) ELSE <<>>

\* line 153: fullText.length > prompt.length.
SliceApplies(prompt, text) == Len(text) > Len(prompt)

\* lines 151-174.
Extract(prompt, text) ==
  IF SliceApplies(prompt, text)
    THEN SubSeq(text, Len(prompt) + 1, Len(text))
    ELSE WordSuffix(prompt, text)

\* line 178: replace(/^\n+/, '').
RECURSIVE StripLeadingNewlines(_)
StripLeadingNewlines(s) ==
  IF s # <<>> /\ Head(s) = "\n" THEN StripLeadingNewlines(Tail(s)) ELSE s

\* The number of newlines a text begins with.
RECURSIVE LeadingNewlines(_)
LeadingNewlines(s) ==
  IF s # <<>> /\ Head(s) = "\n" THEN 1 + LeadingNewlines(Tail(s)) ELSE 0

Newlines(n) == [i \in 1..n |-> "\n"]

\* A replacement that leaves every run as it is.
CollapseNewlinesSkipped(s) == s

\* line 179: replace(/\n{3,}/g, '\n\n'); the pattern is greedy, so a match
\* is a whole run.
RECURSIVE CollapseNewlines(_)
CollapseNewlines(s) ==
  IF s = <<>> THEN <<>>
  ELSE IF Head(s) = "\n"
    THEN LET n == LeadingNewlines(s)
         IN Newlines(IF n >= 3 THEN 2 ELSE n)
              \o CollapseNewlines(SubSeq(s, n + 1, Len(s)))
  ELSE <<Head(s)>> \o CollapseNewlines(Tail(s))

\* lines 177-180.
CleanUp(s) == TrimEnd(CollapseNewlines(StripLeadingNewlines(s)))

\* lines 183-195: a continuation that begins with the lookahead, or that
\* the lookahead begins with, is emptied.  An empty string is falsy.
AgainstLookahead(c, look) ==
  IF look # <<>> /\ c # <<>>
       /\ (StartsWith(Trim(c), Trim(look)) \/ StartsWith(Trim(look), Trim(c)))
    THEN <<>> ELSE c

\* The texts of a run: a prompt, an output that repeats the prompt, alters
\* its first character or is cut short, followed by new text with runs of
\* newlines, and a lookahead.
ExtPrompts == {<<"a", " ", "b">>, <<"a", "a", " ", "b">>}
OutputHeads == {<<"a", " ", "b">>, <<"x", " ", "b">>, <<"a">>}
OutputMiddles == {<<>>, <<"c">>}
OutputEnds == {<<>>, <<"d">>, <<"d", " ">>, <<" ", "d", "\n">>}
Outputs == {h \o Newlines(i) \o m \o Newlines(k) \o e :
              h \in OutputHeads, i \in 0..MaxNewlines, m \in OutputMiddles,
              k \in 0..MaxNewlines, e \in OutputEnds}
ExtLookaheads == {<<>>, <<"d">>, <<"z">>}

\* lines 147-200 on the texts of this run: the suffix extracted and the
\* continuation posted.
ExtractCall ==
  /\ posted = <<>>
  /\ LET suffix == Extract(genPrompt, fullText)
     IN posted' = <<[suffix |-> suffix,
                     continuation |->
                       AgainstLookahead(CleanUp(suffix), genLookahead)]>>
  /\ UNCHANGED <<mgrVars, toWorker, toManager, wrkVars, histVars, ignored,
                 adpVars, fltVars, winVars, genPrompt, fullText,
                 genLookahead, regVars>>

\* ------------------------------------------------------------------- Next
\* generateCompletionInWorker, called at most MaxSystemRequests times.
RequestInSystem == nextId <= MaxSystemRequests /\ GenerateCompletionInWorker

\* generateCompletionInWorker, called at most MaxFairRequests times.
RequestInFairRun == nextId <= MaxFairRequests /\ GenerateCompletionInWorker

\* progress_callback, invoked at most MaxSystemProgress times.
ProgressInSystem(a, v) ==
  nProgress < MaxSystemProgress /\ ProgressCallback(a, v)

\* The whole system: a client that preloads and requests completions, the
\* Manager, and the worker with its engine.
Next ==
  \/ PreloadModel
  \/ \E p \in Preloads : CheckLoaded(p)
  \/ RequestInSystem
  \/ \E id \in Ids : Timeout(id)
  \/ OnMessage
  \/ WorkerOnMessage
  \/ \E a \in Attempts, v \in ProgressValues : ProgressInSystem(a, v)
  \/ \E a \in Attempts : LoadResolve(a)
  \/ \E a \in Attempts : LoadReject(a)
  \/ \E id \in Ids : GenerateResolve(id)
  \/ \E id \in Ids : GenerateReject(id)

Spec == Init /\ [][Next]_vars

\* The same system without the progress reports of a load, which write
\* the two progress fields alone: preloads, requests and loads.
NextPreloads ==
  \/ PreloadModel
  \/ \E p \in Preloads : CheckLoaded(p)
  \/ RequestInSystem
  \/ \E id \in Ids : Timeout(id)
  \/ OnMessage
  \/ WorkerOnMessage
  \/ \E a \in Attempts : LoadResolve(a)
  \/ \E a \in Attempts : LoadReject(a)
  \/ \E id \in Ids : GenerateResolve(id)
  \/ \E id \in Ids : GenerateReject(id)

SpecPreloads == Init /\ [][NextPreloads]_vars

\* A client that preloads and requests, with fairness: the timer of a poll
\* fires (setTimeout, line 149), posted messages are delivered and handled,
\* and every load attempt of the worker ends, one way or the other.
NextFairPreloads ==
  \/ PreloadModel
  \/ \E p \in Preloads : CheckLoaded(p)
  \/ RequestInSystem
  \/ OnMessage
  \/ WorkerOnMessage
  \/ \E a \in Attempts : LoadResolve(a)
  \/ \E a \in Attempts : LoadReject(a)
  \/ \E id \in Ids : GenerateResolve(id)
  \/ \E id \in Ids : GenerateReject(id)

FairSpecPreloads ==
  /\ Init /\ [][NextFairPreloads]_vars
  /\ \A p \in Preloads : WF_vars(CheckLoaded(p))
  /\ WF_vars(OnMessage)
  /\ WF_vars(WorkerOnMessage)
  /\ \A a \in Attempts : WF_vars(LoadResolve(a) \/ LoadReject(a))

\* A message of a type neither side knows, put in a channel by the
\* environment (the code of this repository posts none).
Unexpected == Msg("UNEXPECTED", NoId, 0)

NumUnexpected(q) ==
  Cardinality({k \in DOMAIN q : q[k].type = "UNEXPECTED"})

UnexpectedToWorker ==
  /\ NumUnexpected(toWorker) < MaxUnexpected
  /\ toWorker' = Append(toWorker, Unexpected)
  /\ UNCHANGED <<mgrVars, toManager, wrkVars, histVars,
                 ignored, adpVars, fltVars, pureVars, regVars>>

UnexpectedToManager ==
  /\ NumUnexpected(toManager) < MaxUnexpected
  /\ toManager' = Append(toManager, Unexpected)
  /\ UNCHANGED <<mgrVars, toWorker, wrkVars, histVars,
                 ignored, adpVars, fltVars, pureVars, regVars>>

\* preloadModel, called at most MaxFaultPreloads times.
PreloadInFaults == nextPreload <= MaxFaultPreloads /\ PreloadModel

\* The whole system, with worker errors.
NextFaults ==
  \/ PreloadInFaults
  \/ \E p \in Preloads : CheckLoaded(p)
  \/ RequestInSystem
  \/ \E id \in Ids : Timeout(id)
  \/ OnMessage
  \/ OnError
  \/ WorkerOnMessage
  \/ \E a \in Attempts : LoadResolve(a)
  \/ \E a \in Attempts : LoadReject(a)
  \/ \E id \in Ids : GenerateResolve(id)
  \/ \E id \in Ids : GenerateReject(id)

SpecFaults == Init /\ [][NextFaults]_vars

\* A client that requests completions, with messages of unknown type on
\* both channels.
NextUnexpected ==
  \/ RequestInSystem
  \/ \E id \in Ids : Timeout(id)
  \/ OnMessage
  \/ WorkerOnMessage
  \/ \E a \in Attempts : LoadResolve(a)
  \/ \E a \in Attempts : LoadReject(a)
  \/ \E id \in Ids : GenerateResolve(id)
  \/ \E id \in Ids : GenerateReject(id)
  \/ UnexpectedToWorker
  \/ UnexpectedToManager

SpecUnexpected == Init /\ [][NextUnexpected]_vars

\* The system with its observer: the client also subscribes, and the
\* browser runs the animation-frame callbacks.  The timers and the polls
\* of preloadModel, which write no field an observer is told of, are left
\* out.
NextObserver ==
  \/ SetProgressCallback
  \/ AnimationFrame
  \/ PreloadInFaults
  \/ RequestInSystem
  \/ OnMessage
  \/ WorkerOnMessage
  \/ \E a \in Attempts : LoadResolve(a)
  \/ \E a \in Attempts : LoadReject(a)
  \/ \E id \in Ids : GenerateResolve(id)
  \/ \E id \in Ids : GenerateReject(id)

SpecObserver == Init /\ [][NextObserver]_vars

\* filterContinuation alone, on every pair of texts.
InitFilter ==
  /\ InitSystem
  /\ continuation \in Texts
  /\ lookaheadText \in Texts
  /\ filtered = <<>>
  /\ NoWindowCall
  /\ NoExtraction

SpecFilter == InitFilter /\ [][FilterCall]_vars

\* The windows alone, on every document size and cursor line.
InitWindow ==
  /\ InitSystem
  /\ NoFilterCall
  /\ lineCount \in 1..MaxLines
  /\ lineNumber \in 1..lineCount
  /\ windows = <<>>
  /\ NoExtraction

SpecWindow == InitWindow /\ [][WindowCall]_vars

\* The text handling of the worker alone, on every choice of texts.
InitExtract ==
  /\ InitSystem
  /\ NoFilterCall
  /\ NoWindowCall
  /\ genPrompt \in ExtPrompts
  /\ fullText \in Outputs
  /\ genLookahead \in ExtLookaheads
  /\ posted = <<>>

SpecExtract == InitExtract /\ [][ExtractCall]_vars

\* The editor: calls of provideInlineCompletions, the Manager and the
\* worker, with loads that may fail.  The provider's own preloadModel calls
\* start the loads, so a call that finds a load in progress is a second
\* call made during the load of the first.  Progress reports write
\* loadingProgress alone and are left out, as are the timeouts of requests.
NextAdapter ==
  \/ \E t \in Triggers, ed \in BOOLEAN, prompt \in Prompts,
         look \in Lookaheads : ProvideInlineCompletions(t, ed, prompt, look)
  \/ \E t \in Triggers : CompletionSettled(t)
  \/ \E p \in Preloads : CheckLoaded(p)
  \/ OnMessage
  \/ WorkerOnMessage
  \/ \E a \in Attempts : LoadResolve(a)
  \/ \E a \in Attempts : LoadReject(a)
  \/ \E id \in Ids : GenerateResolve(id)
  \/ \E id \in Ids : GenerateReject(id)

SpecAdapter == Init /\ [][NextAdapter]_vars

\* The writers of the snapshot: preloads, requests with their implicit
\* loads, progress reports and loads that end either way.  The timeout of a
\* request writes the request table alone and is left out.
NextSnapshot ==
  \/ PreloadModel
  \/ \E p \in Preloads : CheckLoaded(p)
  \/ RequestInSystem
  \/ OnMessage
  \/ WorkerOnMessage
  \/ \E a \in Attempts, v \in ProgressValues : ProgressInSystem(a, v)
  \/ \E a \in Attempts : LoadResolve(a)
  \/ \E a \in Attempts : LoadReject(a)
  \/ \E id \in Ids : GenerateResolve(id)
  \/ \E id \in Ids : GenerateReject(id)

SpecSnapshot == Init /\ [][NextSnapshot]_vars

\* The editor mounting again and again while the application preloads the
\* model: registrations, preloads and loads, without completion requests.
NextRegister ==
  \/ RegisterAICompletionProvider
  \/ PreloadModel
  \/ \E p \in Preloads : CheckLoaded(p)
  \/ OnMessage
  \/ WorkerOnMessage
  \/ \E a \in Attempts : LoadResolve(a)
  \/ \E a \in Attempts : LoadReject(a)

SpecRegister == Init /\ [][NextRegister]_vars

\* The same, with the timeouts of requests and with loads that succeed.
NextAdapterFailures ==
  \/ \E t \in Triggers, ed \in BOOLEAN, prompt \in Prompts,
         look \in Lookaheads : ProvideInlineCompletions(t, ed, prompt, look)
  \/ \E t \in Triggers : CompletionSettled(t)
  \/ \E p \in Preloads : CheckLoaded(p)
  \/ \E id \in Ids : Timeout(id)
  \/ OnMessage
  \/ WorkerOnMessage
  \/ \E a \in Attempts : LoadResolve(a)
  \/ \E id \in Ids : GenerateResolve(id)
  \/ \E id \in Ids : GenerateReject(id)

SpecAdapterFailures == Init /\ [][NextAdapterFailures]_vars

\* A client that only preloads: loads with longer runs of progress events.
NextLoad ==
  \/ PreloadModel
  \/ \E p \in Preloads : CheckLoaded(p)
  \/ OnMessage
  \/ WorkerOnMessage
  \/ \E a \in Attempts, v \in ProgressValues : ProgressCallback(a, v)
  \/ \E a \in Attempts : LoadResolve(a)
  \/ \E a \in Attempts : LoadReject(a)

SpecLoad == Init /\ [][NextLoad]_vars

\* A client that only requests completions (the model is loaded by the
\* implicit load of the worker): longer chains of requests.
NextRequests ==
  \/ GenerateCompletionInWorker
  \/ \E id \in Ids : Timeout(id)
  \/ OnMessage
  \/ WorkerOnMessage
  \/ \E a \in Attempts : LoadResolve(a)
  \/ \E a \in Attempts : LoadReject(a)
  \/ \E id \in Ids : GenerateResolve(id)
  \/ \E id \in Ids : GenerateReject(id)

SpecRequests == Init /\ [][NextRequests]_vars

\* The same client, with fairness: a timer that was armed and not cleared
\* does fire (setTimeout).  Nothing is assumed of the worker or the engine.
NextFairRequests ==
  \/ RequestInFairRun
  \/ \E id \in Ids : Timeout(id)
  \/ OnMessage
  \/ WorkerOnMessage
  \/ \E a \in Attempts : LoadResolve(a)
  \/ \E a \in Attempts : LoadReject(a)
  \/ \E id \in Ids : GenerateResolve(id)
  \/ \E id \in Ids : GenerateReject(id)

FairSpecRequests ==
  Init /\ [][NextFairRequests]_vars /\ \A id \in Ids : WF_vars(Timeout(id))

\* ================================================================ claims
Settled == {"RESOLVED", "FAILED", "Aborted", "Timeout"}
InFlight(id) == \E k \in DOMAIN toManager :
                  IsTerminal(toManager[k]) /\ toManager[k].id = id

\* C1: in every reachable state the pending-request table holds at most one
\* entry and at most one completion future is PENDING.
C1_AtMostOnePending ==
  /\ Cardinality(pendingCompletions) <= 1
  /\ Cardinality({i \in Ids : future[i] = "PENDING"}) <= 1

\* a request was issued while its predecessor was pending, and is now the
\* only entry of the table
C1_Witness ==
  \E i \in Ids : superseded[i] # {} /\ pendingCompletions = {i}

\* C2: when a request is issued while an earlier one is pending, the earlier
\* future is rejected with Aborted and its id removed from the table before
\* the GENERATE of the new request is posted: at the post no other future is
\* PENDING, and every superseded request is Aborted and out of the table.
C2_AbortedBeforePost ==
  \A i \in Ids : future[i] # "none" =>
     /\ pendingAtPost[i] = {}
     /\ \A j \in superseded[i] :
          future[j] = "Aborted" /\ j \notin pendingCompletions

\* the superseding request has settled after it superseded a pending one
C2_Witness ==
  \E i \in Ids : superseded[i] # {} /\ future[i] \in Settled
                 /\ \A j \in superseded[i] : future[j] = "Aborted"

\* C3: when the timer of a request that is still in the table fires, its
\* future is rejected with Timeout, its id leaves the table, and its abort
\* signal is raised.
C3_TimeoutRetires ==
  [][\A i \in Ids :
       (i \in pendingCompletions /\ timer[i] = "armed" /\ timer'[i] = "fired")
       => /\ future'[i] = "Timeout"
          /\ i \notin pendingCompletions'
          /\ ControllerOf(i) \in aborted']_vars

C3_Witness ==
  \E i \in Ids : future[i] = "Timeout" /\ timer[i] = "fired"
                 /\ ControllerOf(i) \in aborted

\* C4: delivering a terminal message whose id was retired by a timeout or a
\* supersession settles no future and leaves the table unchanged.
C4_LateMessageIgnored ==
  [][(/\ toManager # <<>>
      /\ IsTerminal(Head(toManager))
      /\ future[Head(toManager).id] \in {"Timeout", "Aborted"}
      /\ toManager' = Tail(toManager))
     => /\ future' = future
        /\ result' = result
        /\ settleCalls' = settleCalls
        /\ pendingCompletions' = pendingCompletions]_vars

\* the terminal message of a retired request has been posted and delivered,
\* while a newer request is in the table
C4_Witness ==
  \E i \in Ids : /\ future[i] \in {"Timeout", "Aborted"}
                 /\ terminals[i] = 1
                 /\ ~InFlight(i)
                 /\ pendingCompletions \ {i} # {}

\* C5: every future returned by generateCompletionInWorker eventually
\* settles, whatever the worker does.
C5_EventuallySettles ==
  \A i \in Ids : (future[i] = "PENDING") ~> (future[i] \in Settled)

\* a request settled by its timer although the worker never answered it
C5_Witness ==
  \E i \in Ids : future[i] = "Timeout" /\ terminals[i] = 0

\* C6: every GENERATE the worker received gets exactly one terminal message
\* with its id: never more than one, and one as soon as no coroutine of the
\* request is suspended at the engine.
Suspended(id) == id \in generating \/ \E a \in loads : loadOwner[a] = id

C6_ExactlyOneTerminal ==
  \A i \in Ids : /\ terminals[i] <= 1
                 /\ (i \in received /\ ~Suspended(i)) => terminals[i] = 1
                 /\ i \notin received => terminals[i] = 0

\* a GENERATE whose implicit load failed, one received during a load, and
\* the terminal of each
C6_Witness ==
  /\ \E a \in Attempts : /\ loadOwner[a] # NoId
                         /\ attemptOutcome[a] = "error"
                         /\ terminals[loadOwner[a]] = 1
  /\ Cardinality({i \in Ids : terminals[i] = 1}) >= 2

\* C7: each future is settled by exactly one call; it is resolved only with
\* the continuation of its own request; a settled request is out of the
\* table, and stale timers, signals and messages settle nothing.
C7_SettledOnce ==
  \A i \in Ids :
     /\ settleCalls[i] <= 1
     /\ (settleCalls[i] = 1) <=> (future[i] \in Settled)
     /\ future[i] = "RESOLVED" => result[i] = i
     /\ future[i] \in Settled => i \notin pendingCompletions

\* a resolved request whose timer fired afterwards and whose controller was
\* aborted afterwards by the next request
C7_Witness ==
  \E i \in Ids : /\ future[i] = "RESOLVED"
                 /\ timer[i] = "fired"
                 /\ \E j \in Ids : j # i /\ future[j] = "RESOLVED"
                                   /\ ControllerOf(j) \in aborted

\* C8: preloadModel on a loaded model resolves true at once and posts
\* nothing; on an idle Manager it posts one PRELOAD_MODEL, and its future
\* resolves true if the load attempt this call began ended with MODEL_LOADED
\* and false if that attempt ended with MODEL_LOAD_ERROR.
C8_PreloadReflectsItsAttempt ==
  \A p \in Preloads :
     /\ preloadCase[p] = "loaded" => preloadFuture[p] = "true"
     /\ (preloadCase[p] = "idle" /\ preloadAttempt[p] # 0
         /\ preloadFuture[p] # "polling") =>
          /\ attemptOutcome[preloadAttempt[p]] = "loaded"
               => preloadFuture[p] = "true"
          /\ attemptOutcome[preloadAttempt[p]] = "error"
               => preloadFuture[p] = "false"

\* C9: a preloadModel call made while a load is in progress starts no second
\* load, and its future settles only when that load has finished, with true
\* if it succeeded and false if it failed.
C9_PreloadJoinsLoad ==
  \A p \in Preloads : preloadCase[p] = "loading" =>
     /\ preloadAttempt[p] = 0
     /\ preloadFuture[p] \in {"polling", "true", "false"}
     /\ preloadFuture[p] = "true" => isLoaded
     /\ preloadFuture[p] = "false" => ~isLoading /\ ~isLoaded

\* C10: PRELOAD_MODEL is idempotent in the worker: on a loaded model it posts
\* MODEL_LOADED and starts no load; during a load it does nothing; and at no
\* time are two loads in progress.
PreloadReceived ==
  /\ toWorker # <<>>
  /\ Head(toWorker).type = "PRELOAD_MODEL"
  /\ toWorker' = Tail(toWorker)

C10_PreloadIdempotent ==
  [][/\ Cardinality(loads') <= 1
     /\ (PreloadReceived /\ wIsLoaded) =>
          /\ toManager' = Append(toManager, Msg("MODEL_LOADED", 0, 100))
          /\ UNCHANGED <<wrkVars, nAttempts>>
     /\ (PreloadReceived /\ ~wIsLoaded /\ loads # {}) =>
          UNCHANGED <<toManager, wrkVars, nAttempts>>]_vars

\* a PRELOAD_MODEL was received during the implicit load of a GENERATE and
\* began no attempt; that load is still in progress
C10_Witness ==
  \E p \in Preloads :
     /\ preloadCase[p] = "idle"
     /\ preloadAttempt[p] = 0
     /\ \A k \in DOMAIN toWorker : toWorker[k].type # "PRELOAD_MODEL"
     /\ \E a \in loads : loadOwner[a] # NoId

\* C11: a GENERATE received while the model is not loaded (no load begun, or
\* a load begun by an earlier message still in progress) waits for that load
\* to finish: the worker answers 'Model not loaded' only if the load failed,
\* and goes on to generate if the load succeeded.
C11_WaitsForLoad ==
  \A i \in Ids :
    awaited[i] # 0 =>
      /\ workerPath[i] = "notLoaded" => attemptOutcome[awaited[i]] = "error"
      /\ attemptOutcome[awaited[i]] = "loaded" => workerPath[i] = "started"

\* C12: the future of a request fails only with one of four kinds, and the
\* kind matches the cause: 'Model not loaded' when the load the request
\* depended on failed, the engine's message when generation ran and threw,
\* Timeout when its timer fired and it had not been superseded, Aborted when
\* a newer request superseded it and its timer had not fired.
C12_FailureKinds ==
  \A i \in Ids :
    /\ future[i] = "FAILED" => result[i] \in {ErrModelNotLoaded, ErrEngine}
    /\ future[i] = "FAILED" /\ result[i] = ErrModelNotLoaded =>
         awaited[i] # 0 /\ attemptOutcome[awaited[i]] = "error"
    /\ future[i] = "FAILED" /\ result[i] = ErrEngine =>
         workerPath[i] = "started"
    /\ future[i] = "Timeout" =>
         timer[i] = "fired" /\ \A j \in Ids : i \notin superseded[j]
    /\ future[i] = "Aborted" =>
         timer[i] # "fired" /\ \E j \in Ids : i \in superseded[j]

\* GENERATION_START of request i is still on its way to the Manager.
StartInFlight(i) ==
  \E k \in DOMAIN toManager :
    toManager[k].type = "GENERATION_START" /\ toManager[k].id = i

\* C13: for every GENERATE the worker generates for, GENERATION_START is
\* posted before the terminal message of that request (GENERATION_COMPLETE
\* never comes without it), and from the delivery of its GENERATION_START
\* to the delivery of its terminal message the Manager's
\* isGeneratingCompletion is true.
C13_StartBeforeTerminal ==
  \A i \in Ids :
    /\ i \in generating => workerPath[i] = "started"
    /\ \A k \in DOMAIN toManager :
         /\ toManager[k].id = i
         /\ \/ toManager[k].type = "GENERATION_COMPLETE"
            \/ toManager[k].type = "COMPLETION_ERROR"
               /\ toManager[k].val = ErrEngine
         => /\ workerPath[i] = "started"
            /\ \A k2 \in DOMAIN toManager :
                 toManager[k2].type = "GENERATION_START"
                 /\ toManager[k2].id = i => k2 < k
    /\ workerPath[i] = "started" /\ ~StartInFlight(i)
       /\ (i \in generating \/ InFlight(i))
       => isGeneratingCompletion

\* C14: within one load attempt the LOADING_PROGRESS values the worker
\* reports, and with them the Manager's loadingProgress, never decrease and
\* stay within 0..100, until MODEL_LOADED or MODEL_LOAD_ERROR.
C14_ProgressMonotone ==
  [][/\ wIsLoading /\ wIsLoading' =>
          wLoadingProgress' >= wLoadingProgress
          /\ wLoadingProgress' \in 0..100
     /\ isLoading /\ isLoading' =>
          loadingProgress' >= loadingProgress
          /\ loadingProgress' \in 0..100]_vars

\* C15: LOADED is terminal.  The worker's isLoaded never goes back to false;
\* once the Manager's isLoaded is true it stays true and isLoading is false
\* from then on, whatever preloadModel calls, requests, worker messages and
\* worker errors follow.
C15_LoadedIsTerminal ==
  [][/\ wIsLoaded => wIsLoaded'
     /\ isLoaded => isLoaded' /\ ~isLoading'
     /\ isLoaded' => ~isLoading']_vars

\* The Manager is LOADED and preloadModel was called on the loaded model.
C15_Witness ==
  /\ isLoaded /\ wIsLoaded /\ ~isLoading
  /\ \E p \in Preloads : preloadCase[p] = "loaded"

\* C16: the observer slot holds one callback.  Once setProgressCallback has
\* replaced a callback, every notification that runs afterwards, also one
\* requested before the replacement, calls the new callback; the replaced
\* one is not called again.
C16_SingleSlot ==
  \A r \in invokedSince : r.to = progressCallback

\* A notification requested while callback 1 was in the slot ran after
\* callback 2 had replaced it.
C16_Witness ==
  /\ progressCallback = 2
  /\ \E r \in invokedSince : r.sched = 1 /\ r.to = 2

\* getLoadingState (lines 123-130): the fields an observer is told of.
Snapshot ==
  <<isLoading, isLoaded, loadingProgress, isGeneratingCompletion>>

\* C17: whenever a worker message or a Manager operation changes a field of
\* the snapshot (load start, progress, loaded, load error, generation start,
\* generation end) while an observer is subscribed, a notification of the
\* observer is requested.
C17_EveryChangeNotified ==
  [][progressCallback # NoCallback /\ Snapshot' # Snapshot =>
       Len(rafQueue') = Len(rafQueue) + 1]_vars

\* C18: cancellation never reaches the worker.  The Manager posts only
\* PRELOAD_MODEL and GENERATE_COMPLETION; a step that times a request out
\* posts nothing, a step that supersedes a request posts only the
\* GENERATE_COMPLETION of the new request, and neither changes the state of
\* the worker.
C18_CancellationStaysLocal ==
  [][/\ \A k \in DOMAIN toWorker' :
          toWorker'[k].type \in {"PRELOAD_MODEL", "GENERATE_COMPLETION"}
     /\ \A i \in Ids :
          /\ future[i] = "PENDING" /\ future'[i] = "Timeout" =>
               toWorker' = toWorker /\ UNCHANGED wrkVars
          /\ future[i] = "PENDING" /\ future'[i] = "Aborted" =>
               /\ toWorker' =
                    Append(toWorker, Msg("GENERATE_COMPLETION", nextId, 0))
               /\ UNCHANGED wrkVars]_vars

\* One request was superseded and another timed out.
C18_Witness ==
  \E i, j \in Ids : future[i] = "Aborted" /\ future[j] = "Timeout"

\* C19: a message of a type outside the switch is ignored on both sides.
\* Handling it, the worker changes none of its state and posts no reply;
\* the Manager changes no field of the snapshot, settles no future and
\* leaves the pending-request table as it was.
C19_UnexpectedIgnored ==
  [][/\ /\ toWorker # <<>>
        /\ Head(toWorker).type \notin WorkerCases
        /\ toWorker' = Tail(toWorker)
        => UNCHANGED <<wrkVars, toManager>>
     /\ /\ toManager # <<>>
        /\ Head(toManager).type \notin ManagerCases
        /\ toManager' = Tail(toManager)
        => UNCHANGED <<Snapshot, pendingCompletions, future, result,
                       settleCalls, timer, aborted, rafQueue, toWorker>>]_vars

\* Both sides have handled a message of unknown type, the Manager while a
\* request was pending.
C19_Witness ==
  /\ ignored = {"worker", "manager"}
  /\ pendingCompletions # {}

\* The worker takes the message at the head of its channel.
WorkerTakes(t) ==
  /\ toWorker # <<>>
  /\ Head(toWorker).type = t
  /\ toWorker' = Tail(toWorker)

\* C20: after a load attempt has failed the worker begins no load by itself.
\* A load attempt begins only in the step that handles a PRELOAD_MODEL or a
\* GENERATE_COMPLETION; a PRELOAD_MODEL handled after a failure begins a new
\* attempt, and the end of every attempt is reported by MODEL_LOADED or
\* MODEL_LOAD_ERROR.
C20_NoAutomaticRetry ==
  [][/\ nAttempts' # nAttempts =>
          /\ WorkerTakes("PRELOAD_MODEL") \/ WorkerTakes("GENERATE_COMPLETION")
          /\ nAttempts' = nAttempts + 1
     /\ /\ WorkerTakes("PRELOAD_MODEL")
        /\ nAttempts >= 1 /\ ~wIsLoaded /\ ~wIsLoading
        => /\ nAttempts' = nAttempts + 1
           /\ attemptOutcome'[nAttempts'] = "running"
           /\ loads' = {nAttempts'}
     /\ \A a \in Attempts :
          attemptOutcome[a] = "running" /\ attemptOutcome'[a] # "running" =>
            /\ Len(toManager') > Len(toManager)
            /\ toManager'[Len(toManager) + 1].type =
                 IF attemptOutcome'[a] = "loaded" THEN "MODEL_LOADED"
                 ELSE "MODEL_LOAD_ERROR"]_vars

\* A PRELOAD_MODEL handled after the failure of the first attempt began a
\* new attempt, which has ended.
C20_Witness ==
  /\ attemptOutcome[1] = "error"
  /\ \E p \in Preloads :
       /\ preloadAttempt[p] >= 2
       /\ attemptOutcome[preloadAttempt[p]] \in {"loaded", "error"}

\* ------------------------------------------------------ filterContinuation
\* filterContinuation has been called on the arguments of this run.
Filtered == Len(filtered) >= 1

\* C21: filter(c, "") returns c unchanged for every continuation c, and
\* filter("", l) returns the empty continuation for every lookahead l.
C21_EmptyArgument ==
  Filtered =>
    /\ lookaheadText = <<>> => filtered[1] = continuation
    /\ continuation = <<>> => filtered[1] = <<>>

\* An indented continuation was filtered against no lookahead.
C21_Witness ==
  /\ Filtered
  /\ lookaheadText = <<>>
  /\ continuation = <<" ", "b">>

\* C22: for non-empty c and l, with k the length of the longest common
\* prefix of c (leading white space kept) and l: if k > 5 or k = Len(c) the
\* result is c without its first k characters; an overlap of exactly 5 that
\* is not the whole of c is not stripped.
C22_OverlapStripped ==
  Filtered /\ continuation # <<>> /\ lookaheadText # <<>> =>
    LET k == Overlap(continuation, lookaheadText) IN
    /\ k > 5 \/ k = Len(continuation) =>
         filtered[1] = SubSeq(continuation, k + 1, Len(continuation))
    /\ k = 5 /\ k < Len(continuation) =>
         filtered[1] # SubSeq(continuation, k + 1, Len(continuation))

\* C23: filter preserves indentation.  When neither the overlap rule nor the
\* trivial-closer rule applies the result is the continuation, character
\* for character, leading white space included; when an overlapping prefix
\* is stripped, no white space is removed from the head of the remainder.
C23_IndentationPreserved ==
  Filtered /\ continuation # <<>> /\ lookaheadText # <<>> =>
    LET cont == TrimStart(continuation)
        k == Overlap(cont, lookaheadText)
    IN IF k > 5 \/ (k = Len(cont) /\ k > 0)
         THEN filtered[1] = SubSeq(cont, k + 1, Len(cont))
         ELSE ~TrivialCompletion(cont) => filtered[1] = continuation

\* The overlap rule of lines 177-180 applies to the arguments of this run.
OverlapRuleApplies ==
  LET cont == TrimStart(continuation)
      k == Overlap(cont, lookaheadText)
  IN k > 5 \/ (k = Len(cont) /\ k > 0)

C25_TrivialWithoutLookahead ==
  Filtered /\ lookaheadText = <<>>
  /\ continuation = <<")", ";", "\n">> => filtered[1] = <<>>

\* C25 (amended): the trivial-closer rule applies only when there is
\* lookahead text: filter(");\n", "") returns ");\n" unchanged.
C25_TrivialNeedsLookahead ==
  Filtered /\ lookaheadText = <<>>
  /\ continuation = <<")", ";", "\n">> => filtered[1] = <<")", ";", "\n">>

\* ");\n" was filtered against no lookahead.
C25_Witness ==
  /\ Filtered
  /\ lookaheadText = <<>>
  /\ continuation = <<")", ";", "\n">>

\* ------------------------------------------------ the completion provider
FailureKinds == {"FAILED", "Aborted", "Timeout"}
PreloadSettled(p) == preloadFuture[p] \in {"true", "false", "null"}

\* C27: a provider call that finds the model still not loaded once its wait
\* for the preload is over returns no suggestion and makes no request, and a
\* provider call makes its request only in a state where isLoaded is true.
C27_RequestsOnlyWhenLoaded ==
  [][\A t \in Triggers :
       /\ (trig[t].request = NoId /\ trig'[t].request # NoId) => isLoaded
       /\ (/\ trig[t].pc \in {"none", "awaitPreload"}
           /\ trig'[t].pc \in {"awaitCompletion", "done"}
           /\ ~isLoaded)
          => /\ trig'[t].pc = "done"
             /\ trig'[t].items = <<>>
             /\ trig'[t].request = NoId
             /\ nextId' = nextId
             /\ pendingCompletions' = pendingCompletions
             /\ \A k \in DOMAIN toWorker' :
                  toWorker'[k].type = "GENERATE_COMPLETION"
                    => k \in DOMAIN toWorker /\ toWorker[k] = toWorker'[k]
    ]_vars

\* A call that awaited a preload which resolved false has returned nothing,
\* and a later call has made a request.
C27_Witness ==
  \E t, u \in Triggers :
    /\ trig[t].pc = "done"
    /\ trig[t].decoration = NoDecoration
    /\ trig[t].preload # 0
    /\ preloadFuture[trig[t].preload] = "false"
    /\ trig[t].request = NoId
    /\ trig[t].items = <<>>
    /\ trig[u].request # NoId

\* C28: once the preload a loading decoration was shown for has settled, the
\* decoration is no longer displayed, whatever the order of the calls.
C28_DecorationCleared ==
  \A t \in Triggers :
    (trig[t].decoration # NoDecoration /\ PreloadSettled(trig[t].preload))
      => trig[t].decoration \notin displayed

\* C29: a provider call whose request failed (aborted, timed out, failed in
\* the worker) returns an empty list, and no call lets an error escape.
C29_FailuresYieldNothing ==
  \A t \in Triggers :
    /\ ~trig[t].threw
    /\ (/\ trig[t].pc = "done"
        /\ trig[t].request # NoId
        /\ future[trig[t].request] \in FailureKinds)
       => trig[t].items = <<>>

\* One call returned after its request was aborted, another after its
\* request timed out or failed in the worker.
C29_Witness ==
  \E t, u \in Triggers :
    /\ trig[t].pc = "done" /\ trig[u].pc = "done"
    /\ trig[t].request # NoId /\ trig[u].request # NoId
    /\ future[trig[t].request] = "Aborted"
    /\ future[trig[u].request] \in {"Timeout", "FAILED"}

ShortPrompt(prompt) == Len(Trim(prompt)) < MIN_PROMPT_LENGTH

\* C30: a provider call that reads a prompt whose trimmed length is under
\* the minimum returns no suggestion and makes no request: nothing is posted
\* and no request, pending or not, is touched.
C30_ShortPromptNoRequest ==
  [][\A t \in Triggers :
       (/\ trig[t].pc \in {"none", "awaitPreload"}
        /\ trig'[t].prompt # <<>>
        /\ ShortPrompt(trig'[t].prompt))
       => /\ trig'[t].pc = "done"
          /\ trig'[t].items = <<>>
          /\ trig'[t].request = NoId
          /\ toWorker' = toWorker
          /\ UNCHANGED genVars
    ]_vars

\* A call read a prompt of the minimum length whose trimmed length is short
\* and returned, while the request of an earlier call is still pending.
C30_Witness ==
  \E t, u \in Triggers :
    /\ trig[t].pc = "awaitCompletion"
    /\ trig[t].request \in pendingCompletions
    /\ future[trig[t].request] = "PENDING"
    /\ t < u
    /\ trig[u].pc = "done"
    /\ Len(trig[u].prompt) >= MIN_PROMPT_LENGTH
    /\ ShortPrompt(trig[u].prompt)
    /\ trig[u].request = NoId

\* C31: a provider call whose request succeeded returns no suggestion when
\* the filtered continuation is empty, and otherwise exactly one suggestion:
\* its text is filterContinuation of the continuation and the lookahead of
\* the call, its range the empty range at the position the call received.
C31_OneFilteredSuggestion ==
  \A t \in Triggers :
    (/\ trig[t].pc = "done"
     /\ trig[t].request # NoId
     /\ future[trig[t].request] = "RESOLVED")
    => LET f == FilterContinuation(trig[t].continuation,
                                   trig[t].lookaheadText)
       IN IF f = <<>> THEN trig[t].items = <<>>
          ELSE /\ Len(trig[t].items) = 1
               /\ trig[t].items[1].insertText = f
               /\ trig[t].items[1].range.start = Position(t)
               /\ trig[t].items[1].range.end = Position(t)

\* One call returned a suggestion, and another returned none because the
\* lookahead already holds the continuation it received.
C31_Witness ==
  \E t, u \in Triggers :
    /\ trig[t].pc = "done" /\ trig[t].request # NoId
    /\ future[trig[t].request] = "RESOLVED"
    /\ Len(trig[t].items) = 1
    /\ trig[u].pc = "done" /\ trig[u].request # NoId
    /\ future[trig[u].request] = "RESOLVED"
    /\ trig[u].continuation # <<>>
    /\ trig[u].items = <<>>

\* -------------------------------------------------- the context windows
\* C32: whatever the size of the document and the line of the cursor, the
\* prompt window starts at line 1 or later and holds at most
\* MAX_CONTEXT_LINES lines before the line of the cursor, and the lookahead
\* window ends at the last line or earlier and holds at most
\* MAX_LOOKAHEAD_LINES lines after the line of the cursor.
C32_WindowsClamped ==
  \A k \in DOMAIN windows :
    LET w == windows[k] IN
      /\ w.prompt.startLineNumber >= 1
      /\ w.prompt.startLineNumber <= lineNumber
      /\ lineNumber - w.prompt.startLineNumber <= MAX_CONTEXT_LINES
      /\ w.prompt.endLineNumber = lineNumber
      /\ w.lookahead.startLineNumber = lineNumber
      /\ w.lookahead.endLineNumber >= lineNumber
      /\ w.lookahead.endLineNumber <= lineCount
      /\ w.lookahead.endLineNumber - lineNumber <= MAX_LOOKAHEAD_LINES

\* The windows of a cursor more than MAX_CONTEXT_LINES lines down a
\* document that ends less than MAX_LOOKAHEAD_LINES lines further.
C32_Witness ==
  /\ windows # <<>>
  /\ lineNumber > MAX_CONTEXT_LINES + 1
  /\ lineCount < lineNumber + MAX_LOOKAHEAD_LINES
  /\ windows[1].prompt.startLineNumber = lineNumber - MAX_CONTEXT_LINES
  /\ windows[1].lookahead.endLineNumber = lineCount

\* ------------------------------------------- the texts of the worker
Emitted == posted # <<>>

\* The lengths of the maximal runs of newlines of a text, in order.
RECURSIVE RunLengths(_)
RunLengths(s) ==
  IF s = <<>> THEN <<>>
  ELSE IF Head(s) = "\n"
    THEN <<LeadingNewlines(s)>>
           \o RunLengths(SubSeq(s, LeadingNewlines(s) + 1, Len(s)))
  ELSE RunLengths(Tail(s))

\* C33: the continuation posted in GENERATION_COMPLETE does not begin with a
\* newline, holds no three newlines in a row and does not end with white
\* space; unless it was emptied, each run of newlines inside the extracted
\* suffix is kept when it has one or two newlines and is two newlines long
\* when it had three or more.
C33_ContinuationCleaned ==
  Emitted =>
    LET c == posted[1].continuation
        inner == TrimEnd(StripLeadingNewlines(posted[1].suffix))
    IN /\ c # <<>> => c[1] # "\n"
       /\ \A i \in 1..(Len(c) - 2) :
            ~(c[i] = "\n" /\ c[i + 1] = "\n" /\ c[i + 2] = "\n")
       /\ c # <<>> => c[Len(c)] \notin WhiteSpace
       /\ c # <<>> =>
            /\ Len(RunLengths(c)) = Len(RunLengths(inner))
            /\ \A k \in DOMAIN RunLengths(c) :
                 RunLengths(c)[k] = Min(RunLengths(inner)[k], 2)

\* A suffix that begins with newlines, holds a run of three or more between
\* two letters and ends with white space was posted with the run cut to two.
C33_Witness ==
  /\ Emitted
  /\ posted[1].suffix # <<>>
  /\ posted[1].suffix[1] = "\n"
  /\ \E n \in DOMAIN RunLengths(posted[1].suffix) :
       n >= 2 /\ RunLengths(posted[1].suffix)[n] >= 3
  /\ posted[1].suffix[Len(posted[1].suffix)] \in WhiteSpace
  /\ RunLengths(posted[1].continuation) = <<2>>

\* C34: the suffix extracted from an output that begins with the prompt is
\* the output without that prefix; the suffix extracted from an output that
\* does not begin with the prompt is made of the words of the output from
\* the first one that differs from the prompt's, and is never the output cut
\* at the length of the prompt.
C34_ExtractedSuffix ==
  Emitted =>
    IF StartsWith(fullText, genPrompt)
      THEN posted[1].suffix =
             SubSeq(fullText, Len(genPrompt) + 1, Len(fullText))
      ELSE posted[1].suffix = WordSuffix(genPrompt, fullText)

\* ------------------------------------------------ late terminal messages
\* The Manager takes a terminal message whose request was retired.
RetiredTerminalTaken ==
  /\ toManager # <<>>
  /\ IsTerminal(Head(toManager))
  /\ future[Head(toManager).id] \in {"Timeout", "Aborted"}
  /\ toManager' = Tail(toManager)

\* C35: taking a terminal message of a retired request changes nothing in
\* the Manager; in particular the flag isGeneratingCompletion stays true and
\* no notification is scheduled while a newer request is pending whose
\* generation the worker has started.
C35_RetiredTerminalChangesNothing ==
  [][RetiredTerminalTaken =>
       /\ UNCHANGED mgrVars
       /\ (/\ isGeneratingCompletion
           /\ \E j \in pendingCompletions : j \in generating)
          => /\ isGeneratingCompletion'
             /\ rafQueue' = rafQueue]_vars

\* C36: the worker handles one GENERATE at a time: it starts no generation
\* for a request before it has posted the terminal message of every request
\* received earlier, so at most one generation is in progress and terminal
\* messages are posted in the order of the requests.
C36_OneGenerationAtATime ==
  /\ Cardinality(generating) <= 1
  /\ \A i, j \in received :
       i < j =>
         /\ workerPath[j] = "started" => terminals[i] >= 1
         /\ terminals[j] >= 1 => terminals[i] >= 1

\* -------------------------------------------------- preloads that settle
\* C37: every promise preloadModel returned unsettled is settled in the end,
\* when polls run, messages are delivered and every load attempt ends, also
\* when preloadModel is called again after a load failed and before the
\* poll of the earlier call ran.
C37_PreloadSettles ==
  \A p \in Preloads :
    (preloadFuture[p] = "polling") ~> (preloadFuture[p] \in {"true", "false"})

\* The load the first call began failed, a later call began a second load
\* before the poll of the first call ran, and both promises are settled.
C37_Witness ==
  \E p, q \in Preloads :
    /\ p < q
    /\ preloadCase[p] = "idle" /\ preloadCase[q] = "idle"
    /\ preloadAttempt[p] # 0
    /\ attemptOutcome[preloadAttempt[p]] = "error"
    /\ preloadFuture[p] = "true"
    /\ preloadFuture[q] = "true"

\* C38: the Manager's snapshot is well-formed and never ahead of the worker:
\* isLoading and isLoaded are not both true, isLoaded implies that the
\* progress is 100, and the Manager's isLoaded implies that the worker holds
\* a loaded model.
C38_SnapshotWellFormed ==
  /\ ~(isLoading /\ isLoaded)
  /\ isLoaded => loadingProgress = 100
  /\ isLoaded => wIsLoaded

\* C38, first part alone: isLoading and isLoaded are not both true.
X38_NotBoth == ~(isLoading /\ isLoaded)

\* C38, second part alone: isLoaded implies progress 100.
X38_Progress == isLoaded => loadingProgress = 100

\* C38, third part alone: the Manager is not ahead of the worker.
X38_NotAhead == isLoaded => wIsLoaded

\* C38 witness: the Manager holds a loaded snapshot after a failed load
\* attempt, and preloadModel was called on the loaded model.
C38_Witness ==
  /\ isLoaded /\ ~isLoading /\ loadingProgress = 100 /\ wIsLoaded
  /\ \E a \in Attempts : attemptOutcome[a] = "error"
  /\ \E p \in Preloads : preloadCase[p] = "loaded"

\* The provider calls that created a loading decoration.
Created == {t \in Triggers : trig[t].decoration # NoDecoration}

\* C39: the loading affordance is shown only once: over any sequence of
\* provider calls the Adapter creates at most one loading decoration, and at
\* most one is displayed at any time.
C39_OneLoadingDecoration ==
  /\ Cardinality(Created) <= 1
  /\ Cardinality(displayed) <= 1

\* C39, first part alone: at most one decoration is created.
X39_OneCreated == Cardinality(Created) <= 1

\* C39, second part alone: at most one decoration is displayed at a time.
X39_OneDisplayed == Cardinality(displayed) <= 1

\* Everything registerAICompletionProvider could write: all the state but
\* the history count of its calls.
StateButCalls ==
  <<mgrVars, toWorker, toManager, wrkVars, histVars, ignored, adpVars,
    fltVars, pureVars, providerRegistered, providers>>

\* C40: registerAICompletionProvider registers the provider at most once per
\* Manager: a call made before any registration registers one provider and
\* leaves a worker in place, every later call changes no state, and there is
\* never more than one provider.
C40_RegistersOnce ==
  [][/\ providers' <= 1
     /\ registerCalls' # registerCalls =>
          IF registerCalls = 0
            THEN providers' = 1 /\ providerRegistered' /\ worker'
            ELSE UNCHANGED StateButCalls]_vars

\* C40 witness: the method was called MaxRegisterCalls times in a run in
\* which the application also preloaded the model, and one provider is
\* registered.
C40_Witness ==
  /\ registerCalls = MaxRegisterCalls
  /\ providers = 1
  /\ providerRegistered
  /\ nextPreload > 1

====
